---- MODULE Spec2Model ----
(***************************************************************************)
(* Model of src/sankey_experiments.py: the Plotly Sankey helpers.          *)
(*                                                                         *)
(* The program is a module of synchronous functions.  One behaviour of the *)
(* model is one caller that picks a function and its arguments (Init),     *)
(* runs it to its return or to the exception it raises, and then invokes   *)
(* it a second time with the very same argument objects (Recall).          *)
(*                                                                         *)
(* Python values: None is the record None, an optional value x is Some(x). *)
(* Lists are sequences; Python indices are 0-based and are kept 0-based in *)
(* the state (source, target, i, j), so element k of a Python list l is    *)
(* l[k + 1] here.  A float is the record [kind |-> "float", num |-> n].    *)
(* A colour string is a sequence of tokens, so that str.replace can be     *)
(* modelled as the replacement of a token.                                 *)
(***************************************************************************)
EXTENDS Integers, Sequences, FiniteSets, TLC

----------------------------------------------------------------------------
(* Bounds of the model *)

\* largest number of concepts / flow rows of the general input families
MaxRows == 2
\* largest number of predictions / cells of a flow row
MaxCols == 2
\* largest number of concepts of the wide (many concepts, <= 1 prediction) family
MaxWide == 5

----------------------------------------------------------------------------
(* Python values *)

None == [none |-> TRUE]
Some(x) == [none |-> FALSE, val |-> x]

ToFloat(v) == [kind |-> "float", num |-> v]

\* `if v <= 0: continue` in place of `if v == 0: continue`
IsZeroOrLess(v) == v <= 0

\* `v == 0` on a number
IsZero(v) == v = 0

----------------------------------------------------------------------------
(* Program constants *)

DefaultPredictionColor == <<"#111827">>

DefaultOpacity == "0.4"

DefaultPalette ==
    << <<"#4c78a8">>, <<"#72b7b2">>, <<"#f58518">>, <<"#e45756">>, <<"#54a24b">> >>

Magenta == <<"magenta">>
MagentaRgba == <<"rgba(255,0,255, ", "0.8", ")">>

RowsError == "flows rows must match number of concepts"
ColsError == "each flow row must match number of predictions"

----------------------------------------------------------------------------
(* State *)

VARIABLES
    fn,                 \* the function the caller invokes
    pc,                 \* position inside the running call
    callno,             \* 1 during the first invocation, 2 during the second
    prev,               \* outcome of the first invocation, None before it ends
    given,              \* the arguments as the caller built them
    \* the caller's argument objects
    concepts, predictions, flows, concept_colors, prediction_color,
    data, opacity,
    \* the environment
    colorway,           \* go.Figure().layout.template.layout.colorway
    \* locals of concept_prediction_sankey
    labels, source, target, value, i, j, palette,
    concept_color_list, node_colors, link_colors,
    \* locals of the dataset loader and its callers
    fetches,            \* urlopen calls made during the current invocation
    response,           \* body of the HTTP response, None before it arrives
    loaded,             \* the dataset the figure is built from
    \* how the call ended
    fig,                \* the returned value, None while there is none
    err                 \* the exception raised, "" while there is none

args == <<concepts, predictions, flows, concept_colors, prediction_color, data, opacity>>
builderLocals == <<labels, source, target, value, i, j, palette,
                   concept_color_list, node_colors, link_colors>>
fetchLocals == <<fetches, response, loaded>>
caller == <<fn, callno, prev, given, colorway>>
vars == <<fn, pc, callno, prev, given, args, colorway, builderLocals, fetchLocals, fig, err>>

Builder == "concept_prediction_sankey"
Loader == "load_energy_sankey_data"
ColoredLinks == "colored_links_sankey"
Styled == "styled_sankey"

Terminal == {"done", "error"}

----------------------------------------------------------------------------
(* Inputs the caller may pass *)

\* flow magnitudes as the glossary describes them, and magnitudes with a sign
Cells == {0, 1, 2}
SignedCells == {-1, 0, 1}
Bits == {0, 1}

SeqsUpTo(S, n) == UNION {[1..k -> S] : k \in 0..n}
Matrices(r, c, S) == [1..r -> [1..c -> S]]

ConceptLabels(n) == [k \in 1..n |-> <<"concept", k>>]
PredictionLabels(m) == [k \in 1..m |-> <<"prediction", k>>]

PlotlyColorway ==
    << <<"#636efa">>, <<"#EF553B">>, <<"#00cc96">>, <<"#ab63fa">>, <<"#FFA15A">>,
       <<"#19d3f3">>, <<"#FF6692">>, <<"#B6E880">>, <<"#FF97FF">>, <<"#FECB52">> >>

Palettes ==
    { None, Some(<<>>), Some(<< <<"red">> >>), Some(<< <<"red">>, <<"blue">> >>),
      Some(<< <<"red">>, <<"blue">>, <<"green">> >>) }

TwoColors == Some(<< <<"red">>, <<"blue">> >>)

BuilderArgs(n, m, f, cc, pcol) ==
    [concepts |-> ConceptLabels(n), predictions |-> PredictionLabels(m), flows |-> f,
     concept_colors |-> cc, prediction_color |-> pcol,
     data |-> None, opacity |-> DefaultOpacity]

\* matrices of the documented shape over non-negative magnitudes
WellShaped(a) ==
    \E n \in 0..MaxRows, m \in 0..MaxCols : \E f \in Matrices(n, m, Cells) :
        a = BuilderArgs(n, m, f, TwoColors, DefaultPredictionColor)

\* any number of rows of any lengths, against any number of labels
AnyShape(a) ==
    \E n \in 0..MaxRows, m \in 0..MaxCols, r \in 0..MaxRows :
        \E f \in [1..r -> SeqsUpTo(Bits, MaxCols)] :
            a = BuilderArgs(n, m, f, TwoColors, DefaultPredictionColor)

\* many concepts, at most one prediction, signed magnitudes, every palette
Wide(a) ==
    \E n \in 0..MaxWide, m \in 0..1 : \E f \in Matrices(n, m, SignedCells) :
        \E cc \in Palettes, pcol \in {DefaultPredictionColor, <<"black">>} :
            a = BuilderArgs(n, m, f, cc, pcol)

\* sankey_energy.json-like documents: data[0].node.{label,color}, data[0].link.{...}
Datasets ==
    { [label |-> <<"Coal", "Grid">>, color |-> <<Magenta, <<"rgba(31,119,180, ", "0.8", ")">> >>,
       source |-> <<0, 1, 0>>, target |-> <<1, 0, 1>>, value |-> <<3, 1, 2>>,
       linklabel |-> <<"a", "b", "c">>],
      [label |-> <<"Gas">>, color |-> << <<"black">> >>,
       source |-> <<0>>, target |-> <<0>>, value |-> <<5>>, linklabel |-> <<"">>],
      [label |-> <<>>, color |-> <<>>,
       source |-> <<>>, target |-> <<>>, value |-> <<>>, linklabel |-> <<>>] }

\* what the HTTP response body can hold: a dataset, or bytes that are not JSON
NotJson == [notjson |-> TRUE]
Bodies == {NotJson} \cup {[notjson |-> FALSE, doc |-> d] : d \in Datasets}

FetcherInputs ==
    { [concepts |-> <<>>, predictions |-> <<>>, flows |-> <<>>, concept_colors |-> None,
       prediction_color |-> DefaultPredictionColor, data |-> d, opacity |-> o]
      : <<d, o>> \in ({None} \cup {Some(x) : x \in Datasets}) \X {DefaultOpacity, "0.8", "1"} }

----------------------------------------------------------------------------
(* Construction *)

EntryPoint(f) == IF f = Loader THEN "urlopen" ELSE "start"

FreshLocals ==
    /\ labels = <<>> /\ source = <<>> /\ target = <<>> /\ value = <<>>
    /\ i = 0 /\ j = 0 /\ palette = None
    /\ concept_color_list = <<>> /\ node_colors = <<>> /\ link_colors = <<>>
    /\ fetches = 0 /\ response = None /\ loaded = None
    /\ fig = None /\ err = ""

Init ==
    /\ fn \in {Builder, Loader, ColoredLinks, Styled}
    /\ \/ fn = Builder /\ (WellShaped(given) \/ AnyShape(given) \/ Wide(given))
       \/ fn = Loader /\ given \in {x \in FetcherInputs : x.data = None /\ x.opacity = DefaultOpacity}
       \/ fn = Styled /\ given \in {x \in FetcherInputs : x.opacity = DefaultOpacity}
       \/ fn = ColoredLinks /\ given \in FetcherInputs
    /\ concepts = given.concepts
    /\ predictions = given.predictions
    /\ flows = given.flows
    /\ concept_colors = given.concept_colors
    /\ prediction_color = given.prediction_color
    /\ data = given.data
    /\ opacity = given.opacity
    /\ colorway \in IF fn = Builder /\ given.concept_colors = None
                    THEN {<<>>, PlotlyColorway} ELSE {PlotlyColorway}
    /\ pc = EntryPoint(fn)
    /\ callno = 1
    /\ prev = None
    /\ FreshLocals

----------------------------------------------------------------------------
(* concept_prediction_sankey *)

\* `if len(row) < len(predictions)` in place of `if len(row) != len(predictions)`
RowLengthAtLeast(row) == Len(row) >= Len(predictions)

RowLengthOK(row) == Len(row) = Len(predictions)

\* list.insert(0, x) in place of list.append(x)
EmitFront(list, x) == <<x>> \o list

\* list.append
Emit(list, x) == Append(list, x)

\* the column index without the offset of the concept nodes
TargetIndexNoOffset(col) == col

\* the node index of prediction column col
TargetIndex(col) == Len(concepts) + col

\* the palette cycled from its second colour
CycleColorShifted(colors, k) == colors[((k + 1) % Len(colors)) + 1]

\* concept_colors[k % len(concept_colors)]
CycleColor(colors, k) == colors[(k % Len(colors)) + 1]

ConceptColorList(colors, n) == [k \in 1..n |-> CycleColor(colors, k - 1)]

\* concept_color_list + [prediction_color] * len(predictions)
NodeColors(ccl, pcol, m) == ccl \o [k \in 1..m |-> pcol]

\* links coloured by their position in the link list, not by their source node
LinkColorsByPosition(ccl, srcs) == [k \in 1..Len(srcs) |-> ccl[((k - 1) % Len(ccl)) + 1]]

\* [concept_color_list[src] for src in source]
LinkColors(ccl, srcs) == [k \in 1..Len(srcs) |-> ccl[srcs[k] + 1]]

\* `x or []` and `if not x` on a sequence
Falsy(x) == x = <<>>

\* the palette without the fallback of lines 310-311
ResolvedPaletteNoFallback(cc, cw) == IF cc = None THEN cw ELSE cc.val

\* the palette the colours are taken from
ResolvedPalette(cc, cw) ==
    LET fromArg == IF cc = None THEN (IF Falsy(cw) THEN <<>> ELSE cw) ELSE cc.val
    IN  IF Falsy(fromArg) THEN DefaultPalette ELSE fromArg

\* the go.Figure the call returns, as the fields the code sets
Figure ==
    [label |-> labels, node_color |-> node_colors,
     source |-> source, target |-> target, value |-> value,
     link_color |-> link_colors,
     title |-> "Concept -> Predictions"]

\* `labels = concepts; labels += predictions`: the caller's list is extended in place
CheckRowsAliasing ==
    /\ fn = Builder /\ pc = "start"
    /\ IF Len(flows) # Len(concepts)
       THEN /\ pc' = "error"
            /\ err' = RowsError
            /\ UNCHANGED <<builderLocals, concepts>>
       ELSE /\ concepts' = concepts \o predictions
            /\ labels' = concepts'
            /\ source' = <<>>
            /\ target' = <<>>
            /\ value' = <<>>
            /\ i' = 0
            /\ pc' = "row"
            /\ UNCHANGED <<err, j, palette, concept_color_list, node_colors, link_colors>>
    /\ UNCHANGED <<caller, predictions, flows, concept_colors, prediction_color, data, opacity,
                   fetchLocals, fig>>

\* lines 289-295: the row-count check and the empty link arrays
CheckRows ==
    /\ fn = Builder /\ pc = "start"
    /\ IF Len(flows) # Len(concepts)
       THEN /\ pc' = "error"
            /\ err' = RowsError
            /\ UNCHANGED builderLocals
       ELSE /\ labels' = concepts \o predictions
            /\ source' = <<>>
            /\ target' = <<>>
            /\ value' = <<>>
            /\ i' = 0
            /\ pc' = "row"
            /\ UNCHANGED <<err, j, palette, concept_color_list, node_colors, link_colors>>
    /\ UNCHANGED <<caller, args, fetchLocals, fig>>

\* lines 297-299: the outer loop takes the next row and checks its length
NextRow ==
    /\ fn = Builder /\ pc = "row"
    /\ IF i = Len(flows)
       THEN /\ pc' = "palette"
            /\ UNCHANGED <<j, err>>
       ELSE IF ~RowLengthOK(flows[i + 1])
       THEN /\ pc' = "error"
            /\ err' = ColsError
            /\ UNCHANGED j
       ELSE /\ j' = 0
            /\ pc' = "cell"
            /\ UNCHANGED err
    /\ UNCHANGED <<caller, args, fetchLocals, fig, labels, source, target, value, i,
                   palette, concept_color_list, node_colors, link_colors>>

\* lines 300-305: the inner loop takes the next cell and emits its link
NextCell ==
    /\ fn = Builder /\ pc = "cell"
    /\ LET row == flows[i + 1] IN
       IF j = Len(row)
       THEN /\ i' = i + 1
            /\ pc' = "row"
            /\ UNCHANGED <<j, source, target, value>>
       ELSE /\ IF IsZero(row[j + 1])
               THEN UNCHANGED <<source, target, value>>
               ELSE /\ source' = Emit(source, i)
                    /\ target' = Emit(target, TargetIndex(j))
                    /\ value' = Emit(value, ToFloat(row[j + 1]))
            /\ j' = j + 1
            /\ UNCHANGED <<i, pc>>
    /\ UNCHANGED <<caller, args, fetchLocals, fig, err, labels,
                   palette, concept_color_list, node_colors, link_colors>>

\* lines 307-313: the palette defaults
ResolvePalette ==
    /\ fn = Builder /\ pc = "palette"
    /\ palette' = Some(ResolvedPalette(concept_colors, colorway))
    /\ pc' = "colors"
    /\ UNCHANGED <<caller, args, fetchLocals, fig, err, labels, source, target, value, i, j,
                   concept_color_list, node_colors, link_colors>>

\* lines 314-318: node and link colours
AssignColors ==
    /\ fn = Builder /\ pc = "colors"
    /\ LET ccl == ConceptColorList(palette.val, Len(concepts)) IN
       /\ concept_color_list' = ccl
       /\ node_colors' = NodeColors(ccl, prediction_color, Len(predictions))
       /\ link_colors' = LinkColors(ccl, source)
    /\ pc' = "figure"
    /\ UNCHANGED <<caller, args, fetchLocals, fig, err, labels, source, target, value, i, j,
                   palette>>

\* lines 320-342: the figure is built and returned
ReturnFigure ==
    /\ fn = Builder /\ pc = "figure"
    /\ fig' = Some(Figure)
    /\ pc' = "done"
    /\ UNCHANGED <<caller, args, fetchLocals, err, builderLocals>>

----------------------------------------------------------------------------
(* load_energy_sankey_data, colored_links_sankey, styled_sankey *)

\* str.replace(old, new) on a colour
Replace(color, old, new) == [k \in 1..Len(color) |-> IF color[k] = old THEN new ELSE color[k]]

\* lines 57-60
DatasetNodeColors(doc) ==
    [k \in 1..Len(doc.color) |-> IF doc.color[k] = Magenta THEN MagentaRgba ELSE doc.color[k]]

\* lines 61-64
DatasetLinkColors(doc, ncolors, op) ==
    [k \in 1..Len(doc.source) |-> Replace(ncolors[doc.source[k] + 1], "0.8", op)]

\* lines 54-55 and 95-96: `if data is None: data = load_energy_sankey_data()`
CheckData ==
    /\ fn \in {ColoredLinks, Styled} /\ pc = "start"
    /\ IF data = None
       THEN /\ pc' = "urlopen"
            /\ UNCHANGED loaded
       ELSE /\ loaded' = data
            /\ pc' = "build"
    /\ UNCHANGED <<caller, args, builderLocals, fetches, response, fig, err>>

\* a failed transport is tried once more
UrlopenRetrying ==
    /\ fn \in {Loader, ColoredLinks, Styled} /\ pc = "urlopen"
    /\ fetches' = fetches + 1
    /\ \/ /\ pc' = IF fetches = 0 THEN "urlopen" ELSE "error"
          /\ err' = IF fetches = 0 THEN "" ELSE "URLError"
          /\ UNCHANGED response
       \/ /\ \E b \in Bodies : response' = Some(b)
          /\ pc' = "parse"
          /\ UNCHANGED err
    /\ UNCHANGED <<caller, args, builderLocals, loaded, fig>>

\* line 23: urllib.request.urlopen(url); the transport fails or a body arrives
Urlopen ==
    /\ fn \in {Loader, ColoredLinks, Styled} /\ pc = "urlopen"
    /\ fetches' = fetches + 1
    /\ \/ /\ pc' = "error"
          /\ err' = "URLError"
          /\ UNCHANGED response
       \/ /\ \E b \in Bodies : response' = Some(b)
          /\ pc' = "parse"
          /\ UNCHANGED err
    /\ UNCHANGED <<caller, args, builderLocals, loaded, fig>>

\* line 24: json.loads(response.read()), returned to the caller
Parse ==
    /\ fn \in {Loader, ColoredLinks, Styled} /\ pc = "parse"
    /\ IF response.val.notjson
       THEN /\ pc' = "error"
            /\ err' = "JSONDecodeError"
            /\ UNCHANGED <<loaded, fig>>
       ELSE IF fn = Loader
       THEN /\ fig' = Some([dataset |-> response.val.doc])
            /\ pc' = "done"
            /\ UNCHANGED <<loaded, err>>
       ELSE /\ loaded' = Some(response.val.doc)
            /\ pc' = "build"
            /\ UNCHANGED <<fig, err>>
    /\ UNCHANGED <<caller, args, builderLocals, fetches, response>>

\* lines 57-89
BuildColored ==
    /\ fn = ColoredLinks /\ pc = "build"
    /\ LET doc == loaded.val
           nc == DatasetNodeColors(doc)
           lc == DatasetLinkColors(doc, nc, opacity)
       IN  /\ node_colors' = nc
           /\ link_colors' = lc
           /\ fig' = Some([label |-> doc.label, node_color |-> nc,
                           source |-> doc.source, target |-> doc.target,
                           value |-> doc.value, link_label |-> doc.linklabel,
                           link_color |-> lc, title |-> "Energy forecast for 2050"])
    /\ pc' = "done"
    /\ UNCHANGED <<caller, args, fetchLocals, err, labels, source, target, value, i, j,
                   palette, concept_color_list>>

\* lines 98-127
BuildStyled ==
    /\ fn = Styled /\ pc = "build"
    /\ LET doc == loaded.val
       IN  fig' = Some([label |-> doc.label, node_color |-> doc.color,
                        source |-> doc.source, target |-> doc.target,
                        value |-> doc.value, link_label |-> doc.linklabel,
                        title |-> "Energy forecast for 2050", hovermode |-> "x"])
    /\ pc' = "done"
    /\ UNCHANGED <<caller, args, fetchLocals, err, builderLocals>>

----------------------------------------------------------------------------
(* The caller *)

Outcome == [fig |-> fig, err |-> err]

\* the caller invokes the same function again on the same argument objects
Recall ==
    /\ pc \in Terminal /\ callno = 1
    /\ prev' = Some(Outcome)
    /\ callno' = 2
    /\ pc' = EntryPoint(fn)
    /\ labels' = <<>> /\ source' = <<>> /\ target' = <<>> /\ value' = <<>>
    /\ i' = 0 /\ j' = 0 /\ palette' = None
    /\ concept_color_list' = <<>> /\ node_colors' = <<>> /\ link_colors' = <<>>
    /\ fetches' = 0 /\ response' = None /\ loaded' = None
    /\ fig' = None /\ err' = ""
    /\ UNCHANGED <<fn, given, colorway, args>>

Next ==
    \/ CheckRows
    \/ NextRow
    \/ NextCell
    \/ ResolvePalette
    \/ AssignColors
    \/ ReturnFigure
    \/ CheckData
    \/ Urlopen
    \/ Parse
    \/ BuildColored
    \/ BuildStyled
    \/ Recall

Spec == Init /\ [][Next]_vars

----------------------------------------------------------------------------
(* Properties *)

BuilderDone == fn = Builder /\ pc = "done"

\* the flow matrix has the documented shape
ShapeOK ==
    /\ Len(flows) = Len(concepts)
    /\ \A r \in 1..Len(flows) : Len(flows[r]) = Len(predictions)

\* the cells <<row, column>> (1-based) that hold a non-zero magnitude
NonZeroCells ==
    UNION { { <<r, c>> : c \in {x \in 1..Len(flows[r]) : flows[r][x] # 0} } : r \in 1..Len(flows) }

\* cell a is scanned before cell b, row by row and left to right
ScannedBefore(a, b) == a[1] < b[1] \/ (a[1] = b[1] /\ a[2] < b[2])

\* the non-zero cells the loops have passed when they stand at row i, column j
ScannedCells == {x \in NonZeroCells : x[1] <= i \/ (pc = "cell" /\ x[1] = i + 1 /\ x[2] <= j)}

\* C1: the number of emitted links (the common length of source, target and
\* value) is the number of non-zero cells of the flow matrix, in the returned
\* figure and, while the loops run, for the cells scanned so far; no link
\* carries a zero.
LinkCountIsNonZeroCellCount ==
    fn = Builder =>
        /\ pc \in {"row", "cell"} =>
              /\ Len(source) = Cardinality(ScannedCells)
              /\ Len(target) = Len(source)
              /\ Len(value) = Len(source)
        /\ pc = "done" =>
              /\ Len(fig.val.source) = Cardinality(NonZeroCells)
              /\ Len(fig.val.target) = Cardinality(NonZeroCells)
              /\ Len(fig.val.value) = Cardinality(NonZeroCells)
              /\ \A k \in 1..Len(fig.val.value) : fig.val.value[k].num # 0

LinkCountWitness ==
    /\ BuilderDone
    /\ Len(fig.val.source) >= 2
    /\ Cardinality(NonZeroCells) < Len(concepts) * Len(predictions)
    /\ \E x \in NonZeroCells : flows[x[1]][x[2]] < 0

\* C2: every emitted link goes from a concept node to a prediction node,
\* 0 <= source < len(concepts) <= target < len(concepts) + len(predictions),
\* at every point of the emission and in the returned figure.
Bipartite ==
    fn = Builder =>
        /\ Len(source) = Len(target)
        /\ \A k \in 1..Len(source) :
              /\ 0 <= source[k] /\ source[k] < Len(concepts)
              /\ Len(concepts) <= target[k]
              /\ target[k] < Len(concepts) + Len(predictions)
        /\ pc = "done" =>
              /\ Len(fig.val.label) = Len(concepts) + Len(predictions)
              /\ \A k \in 1..Len(fig.val.source) :
                    /\ 0 <= fig.val.source[k] /\ fig.val.source[k] < Len(concepts)
                    /\ Len(concepts) <= fig.val.target[k]
                    /\ fig.val.target[k] < Len(fig.val.label)

BipartiteWitness ==
    /\ fn = Builder /\ pc = "cell"
    /\ Len(source) >= 2
    /\ \E k \in 1..Len(target) : target[k] = Len(concepts) + Len(predictions) - 1
    /\ \E k \in 1..Len(source) : source[k] = Len(concepts) - 1

\* C3: links are emitted in row-major order: the k-th link is the k-th
\* non-zero cell (r, c) of the row-by-row, left-to-right scan, with source r,
\* target len(concepts) + c (0-based) and the cell's magnitude as a float.
\* [[1,0],[0,2]] over two concepts and two predictions gives 0->2 (1), 1->3 (2).
RowMajorLinks ==
    BuilderDone =>
        LET d == fig.val
            Rank(x) == Cardinality({y \in NonZeroCells : ScannedBefore(y, x)}) + 1
        IN  /\ Len(d.source) = Cardinality(NonZeroCells)
            /\ \A x \in NonZeroCells :
                  /\ d.source[Rank(x)] = x[1] - 1
                  /\ d.target[Rank(x)] = Len(concepts) + (x[2] - 1)
                  /\ d.value[Rank(x)].kind = "float"
                  /\ d.value[Rank(x)].num = flows[x[1]][x[2]]
            /\ (flows = << <<1, 0>>, <<0, 2>> >> /\ Len(concepts) = 2) =>
                  /\ d.source = <<0, 1>>
                  /\ d.target = <<2, 3>>
                  /\ d.value = << [kind |-> "float", num |-> 1], [kind |-> "float", num |-> 2] >>

RowMajorWitness ==
    /\ BuilderDone
    /\ flows = << <<1, 0>>, <<0, 2>> >>
    /\ Len(concepts) = 2 /\ Len(predictions) = 2
    /\ Len(fig.val.source) = 2

\* C4: a figure is returned only for a matrix of the right shape: with a wrong
\* row count, or a row of a wrong length at any position, the call never
\* gets past the loops, returns nothing, and where it stops it has raised
\* one of the two shape errors.
NoFigureOnShapeMismatch ==
    fn = Builder =>
        /\ ~ShapeOK => fig = None /\ pc \in {"start", "row", "cell", "error"}
        /\ pc = "error" => /\ fig = None
                           /\ ~ShapeOK
                           /\ err \in {RowsError, ColsError}
                           /\ err = RowsError <=> Len(flows) # Len(concepts)
        /\ pc = "done" => ShapeOK /\ fig # None /\ err = ""

ShapeMismatchWitness ==
    /\ fn = Builder /\ pc = "error" /\ err = ColsError
    /\ Len(flows) >= 2
    /\ i = Len(flows) - 1
    /\ source # <<>>
    /\ fig = None

\* C5: with a non-empty palette of p colours, concept node k (0-based) gets
\* palette[k mod p].
ColorCycling ==
    (BuilderDone /\ concept_colors # None /\ concept_colors.val # <<>>) =>
        LET pal == concept_colors.val
        IN  \A k \in 0..(Len(concepts) - 1) :
                fig.val.node_color[k + 1] = pal[(k % Len(pal)) + 1]

ColorCyclingWitness ==
    /\ BuilderDone
    /\ concept_colors # None
    /\ Len(concept_colors.val) = 2
    /\ Len(concepts) = 5
    /\ fig.val.node_color[1] = fig.val.node_color[3]
    /\ fig.val.node_color[3] = fig.val.node_color[5]
    /\ fig.val.node_color[2] = fig.val.node_color[4]
    /\ fig.val.node_color[1] # fig.val.node_color[2]

\* C6: in the returned figure the link colour list has one entry per link and
\* link k has the colour of its source node.
LinksInheritSourceColor ==
    BuilderDone =>
        /\ Len(fig.val.link_color) = Len(fig.val.source)
        /\ \A k \in 1..Len(fig.val.source) :
              fig.val.link_color[k] = fig.val.node_color[fig.val.source[k] + 1]

LinkColorWitness ==
    /\ BuilderDone
    /\ Len(fig.val.source) >= 3
    /\ \E k \in 2..Len(fig.val.source) :
          /\ fig.val.source[k] = fig.val.source[1]
          /\ \E l \in 1..Len(fig.val.source) : fig.val.link_color[l] # fig.val.link_color[1]

\* C7: every emitted link has a non-negative magnitude.
NonNegativeMagnitudes ==
    fn = Builder => \A k \in 1..Len(value) : value[k].num >= 0

NodeColorsParallelToLabels ==
    fn = Builder =>
        /\ pc \in {"colors", "figure", "done"} =>
              /\ palette # None
              /\ Len(palette.val) > 0
              /\ concept_colors = Some(<<>>) => palette.val = DefaultPalette /\ Len(palette.val) = 5
        /\ pc = "done" =>
              LET d == fig.val
                  n == Len(concepts)
                  m == Len(predictions)
              IN  /\ d.label = concepts \o predictions
                  /\ Len(d.node_color) = n + m
                  /\ Len(d.node_color) = Len(d.label)
                  /\ \A k \in (n + 1)..(n + m) : d.node_color[k] = prediction_color

NodeColorsWitness ==
    /\ BuilderDone
    /\ concept_colors = Some(<<>>)
    /\ Len(concepts) >= 2 /\ Len(predictions) >= 1
    /\ fig.val.node_color[1] = DefaultPalette[1]

\* C10: an invocation makes at most one fetch; the loader has made exactly one
\* when it ends, a failed transport or parse ends the call in the error state
\* with nothing returned and no dataset substituted; colored_links_sankey and
\* styled_sankey fetch once when data is None and never when data is given.
SingleFetch ==
    fn \in {Loader, ColoredLinks, Styled} =>
        /\ fetches <= 1
        /\ (fn = Loader /\ pc \in Terminal) => fetches = 1
        /\ err \in {"URLError", "JSONDecodeError"} =>
              pc = "error" /\ fig = None /\ loaded = None /\ fetches = 1
        /\ pc = "error" => err \in {"URLError", "JSONDecodeError"}
        /\ (fn # Loader /\ data # None) => fetches = 0 /\ pc # "error"
        /\ (fn # Loader /\ data = None /\ pc \in {"parse", "build", "done", "error"}) => fetches = 1

SingleFetchWitness ==
    /\ fn = ColoredLinks /\ data = None
    /\ callno = 2 /\ pc = "done" /\ fetches = 1
    /\ prev.val.err = "URLError"

====
